---- MODULE Spec2Model ----
(***************************************************************************)
(* Model of stripy/_trimesh.py: the Triangulation wrapper class around the *)
(* compiled TRIPACK / SRFPACK routines.                                    *)
(*                                                                         *)
(* The wrapper (shape checks, error-code handling, index conversion) is    *)
(* translated from the Python source.  The compiled routines it calls      *)
(* (_tripack.trmesh, trlist, trlist2, nearnd and the _srfpack error codes) *)
(* are not part of the Python source; they are modelled from the design    *)
(* document and from the error-code table _ier_codes of the wrapper.       *)
(* Node indices inside the library are 1-based, as the class docstring     *)
(* says; the wrapper converts to 0-based.                                  *)
(***************************************************************************)
EXTENDS Integers, Sequences, FiniteSets

VARIABLES
    x, y,        \* data of the coordinate arrays passed to Triangulation()
    xnd, ynd,    \* number of dimensions of x and of y (len(x.shape))
    pc,          \* position of the call in progress
    k,           \* trmesh: number of nodes inserted so far
    tris,        \* the triangulation structure (lst, lptr, lend): CCW triangles
    ierr,        \* the local ierr of the call in progress (0 when it has none)
    selfSet,     \* attributes assigned on self so far
    simplices,   \* self.simplices
    outcome,     \* how Triangulation(x, y) ended: none, returned or raised
    callerObj,   \* whether the caller holds a Triangulation object
    op,          \* the method called last on the built object
    args,        \* its arguments
    ret,         \* its outcome (return value or raised exception)
    ind,         \* the caller's indices array (nearest_neighbours)
    libcodes     \* set of error indicators the library returned during the method

vars == <<x, y, xnd, ynd, pc, k, tris, ierr, selfSet, simplices, outcome,
          callerObj, op, args, ret, ind, libcodes>>

buildVars == <<x, y, xnd, ynd, k, tris, selfSet, simplices, outcome, callerObj>>

(***************************************************************************)
(* Bounds of the model.                                                    *)
(***************************************************************************)
MaxN == 4        \* longest coordinate array
GridMax == 2     \* coordinates are integers in 0..GridMax

Coord == 0..GridMax
Grid == Coord \X Coord

(***************************************************************************)
(* _ier_codes: the integer keys of the table and the message of each.  The *)
(* keys 'L' and 'K' are strings: no integer ierr ever selects them.        *)
(***************************************************************************)
IerIntKeys == {0, -1, -2, -3, -4, 1, 2}
IerStrKeys == {"L", "K"}

IerMsg(e) ==
    CASE e = 0  -> "no errors were encountered."
      [] e = -1 -> "N < 3 on input."
      [] e = -2 -> "the first three nodes are collinear."
      [] e = -3 -> "duplicate nodes were encountered."
      [] e = -4 -> "an error flag was returned by a call to SWAP in ADDNOD."
      [] e = 1  -> "NCC, N, NROW, or an LCC entry is outside its valid range on input."
      [] e = 2  -> "the triangulation data structure (LIST,LPTR,LEND) is invalid."

\* how a call ends: its kind (returned or the exception raised), the text
\* of the exception or the names of the values returned, and the integer
\* tables returned
Ending(kind, routine, e, msg) ==
    [kind |-> kind, routine |-> routine, ierr |-> e, msg |-> msg,
     value |-> <<>>, arcs |-> <<>>]

\* 'ierr={} in <routine>\n{}'.format(ierr, _ier_codes[ierr]) inside a raise
\* ValueError(...): the lookup raises KeyError when ierr is not a key.
RaiseIer(routine, e) ==
    IF e \in IerIntKeys
    THEN Ending("ValueError", routine, e, IerMsg(e))
    ELSE Ending("KeyError", routine, e, "KeyError")

RaiseValue(text) == Ending("ValueError", "wrapper", 0, text)

Returned == Ending("returned", "wrapper", 0, "")
NoOutcome == Ending("none", "wrapper", 0, "")

\* return of the values named by text
Return(text) == Ending("returned", "wrapper", 0, text)

\* return of an integer table, or of a pair of integer tables
ReturnTable(v, a) == [Ending("returned", "wrapper", 0, "") EXCEPT !.value = v, !.arcs = a]

\* the arguments of a method call: its numbers and its flag
Args(nums, flag) == [nums |-> nums, flag |-> flag]

(***************************************************************************)
(* Geometry on the nodes (exact integer arithmetic).                       *)
(***************************************************************************)
Node(i) == <<x[i], y[i]>>

\* self.npoints = x.size
npoints == Len(x)

\* > 0 when r is strictly left of the directed line p -> q, 0 when collinear
Orient(p, q, r) ==
    (q[1] - p[1]) * (r[2] - p[2]) - (q[2] - p[2]) * (r[1] - p[1])

OrientN(a, b, c) == Orient(Node(a), Node(b), Node(c))

Sq(v) == v * v

Dist2(p, q) == Sq(p[1] - q[1]) + Sq(p[2] - q[2])

Det3(a, b, c) ==
      a[1] * (b[2] * c[3] - b[3] * c[2])
    - a[2] * (b[1] * c[3] - b[3] * c[1])
    + a[3] * (b[1] * c[2] - b[2] * c[1])

Rel(p, d) == <<p[1] - d[1], p[2] - d[2], Sq(p[1] - d[1]) + Sq(p[2] - d[2])>>

\* d lies strictly inside the circumcircle of the triangle t of nodes.  A
\* triangle of zero area has no circumcircle.
InCircle(t, d) ==
    LET o == OrientN(t[1], t[2], t[3])
        c == Det3(Rel(Node(t[1]), Node(d)), Rel(Node(t[2]), Node(d)),
                  Rel(Node(t[3]), Node(d)))
    IN  o * c > 0

(***************************************************************************)
(* The triangulation structure: a set of counter-clockwise triangles, each *)
(* written with its smallest node index first.                             *)
(***************************************************************************)
Tri(a, b, c) ==
    IF a < b /\ a < c THEN <<a, b, c>>
    ELSE IF b < a /\ b < c THEN <<b, c, a>>
    ELSE <<c, a, b>>

TriEdges(t) == {<<t[1], t[2]>>, <<t[2], t[3]>>, <<t[3], t[1]>>}

DirEdges(T) == UNION {TriEdges(t) : t \in T}

\* the triangles of T with the directed edge u -> v (at most one)
WithEdge(T, u, v) == {t \in T : <<u, v>> \in TriEdges(t)}

Apex(t, u, v) == CHOOSE w \in {t[1], t[2], t[3]} : w # u /\ w # v

\* boundary arcs: directed edges with no triangle on their right
BoundaryEdges(T) == {e \in DirEdges(T) : <<e[2], e[1]>> \notin DirEdges(T)}

BoundaryNodes(T) == {e[1] : e \in BoundaryEdges(T)}

Neighbours(T, i) == {e[2] : e \in {f \in DirEdges(T) : f[1] = i}}
                      \cup {e[1] : e \in {f \in DirEdges(T) : f[2] = i}}

(***************************************************************************)
(* Inputs of Triangulation(x, y).  Well-shaped inputs carry every sequence *)
(* of at most MaxN grid points (repetitions and collinear triples          *)
(* included); inputs of a wrong rank or of unequal lengths carry zeros.    *)
(***************************************************************************)
Zeros(m) == [i \in 1..m |-> 0]

Init ==
    /\ \/ /\ xnd = 1 /\ ynd = 1
          /\ \E n \in 0..MaxN : \E s \in [1..n -> Grid] :
                /\ x = [i \in 1..n |-> s[i][1]]
                /\ y = [i \in 1..n |-> s[i][2]]
       \/ /\ xnd \in {1, 2} /\ ynd \in {1, 2}
          /\ \E m \in 0..MaxN, n \in 0..MaxN :
                /\ xnd # 1 \/ ynd # 1 \/ m # n
                /\ x = Zeros(m) /\ y = Zeros(n)
    /\ pc = "init"
    /\ k = 0
    /\ tris = {}
    /\ ierr = 0
    /\ selfSet = {}
    /\ simplices = <<>>
    /\ outcome = NoOutcome
    /\ callerObj = "none"
    /\ op = "none"
    /\ args = Args(<<>>, FALSE)
    /\ ret = NoOutcome
    /\ ind = <<>>
    /\ libcodes = {}

opVars == <<op, args, ret, ind, libcodes>>

(***************************************************************************)
(* Triangulation.__init__, lines 67-71: the shape checks.                  *)
(***************************************************************************)
InitShape ==
    /\ pc = "init"
    /\ IF xnd # 1 \/ ynd # 1
       THEN /\ outcome' = RaiseValue("x and y must be 1D")
            /\ pc' = "failed"
       ELSE IF Len(x) # Len(y)
       THEN /\ outcome' = RaiseValue("x and y must have same length")
            /\ pc' = "failed"
       ELSE /\ outcome' = outcome
            /\ pc' = "trmesh"
    /\ UNCHANGED <<x, y, xnd, ynd, k, tris, ierr, selfSet, simplices, callerObj>>
    /\ UNCHANGED opVars

(***************************************************************************)
(* _tripack.trmesh: incremental Delaunay construction (design document,    *)
(* section 4.1; error indicators as listed in _ier_codes).                 *)
(***************************************************************************)
\* the seed triangle of the first three nodes, counter-clockwise
SeedTri == IF OrientN(1, 2, 3) > 0 THEN Tri(1, 2, 3) ELSE Tri(1, 3, 2)

\* triangles of positive area whose closed region contains node p
Containing(T, p) ==
    {t \in T : /\ OrientN(t[1], t[2], t[3]) > 0
               /\ OrientN(t[1], t[2], p) >= 0
               /\ OrientN(t[2], t[3], p) >= 0
               /\ OrientN(t[3], t[1], p) >= 0}

\* p inside triangle t: connect p to the three vertices of t
IntAdd(T, t, p) ==
    (T \ {t}) \cup {Tri(t[1], t[2], p), Tri(t[2], t[3], p), Tri(t[3], t[1], p)}

\* boundary arcs visible from p: p is strictly to their right
Visible(T, p) == {e \in BoundaryEdges(T) : OrientN(e[1], e[2], p) < 0}

\* p outside the hull: connect p to the visible boundary nodes
BdyAdd(T, p) == T \cup {Tri(e[2], e[1], p) : e \in Visible(T, p)}

\* no arc is ever swapped
NoSwapEdges(T, p) == {}

\* arcs opposite the new node p whose quadrilateral fails the in-circle test
SwapEdges(T, p) ==
    {e \in DirEdges(T) :
        \E t \in WithEdge(T, e[1], e[2]), s \in WithEdge(T, e[2], e[1]) :
            /\ Apex(t, e[1], e[2]) = p
            /\ \/ InCircle(s, p)
               \/ InCircle(t, Apex(s, e[1], e[2]))}

\* replace the diagonal e of the quadrilateral by the other diagonal
SwapArc(T, e) ==
    LET t == CHOOSE t \in WithEdge(T, e[1], e[2]) : TRUE
        s == CHOOSE s \in WithEdge(T, e[2], e[1]) : TRUE
        p == Apex(t, e[1], e[2])
        d == Apex(s, e[1], e[2])
    IN  (T \ {t, s}) \cup {Tri(e[1], d, p), Tri(d, e[2], p)}

\* error indicators for a node that coincides with the earlier node l
DuplicateCodes(l) == {l, -3}

TrmeshSeed ==
    /\ pc = "trmesh" /\ k = 0
    /\ IF Len(x) < 3
       THEN ierr' = -1 /\ pc' = "trmesh_ret" /\ UNCHANGED <<k, tris>>
       ELSE IF OrientN(1, 2, 3) = 0
       THEN ierr' = -2 /\ pc' = "trmesh_ret" /\ UNCHANGED <<k, tris>>
       ELSE ierr' = ierr /\ pc' = pc /\ k' = 3 /\ tris' = {SeedTri}
    /\ UNCHANGED <<x, y, xnd, ynd, selfSet, simplices, outcome, callerObj>>
    /\ UNCHANGED opVars

AddNod ==
    /\ pc = "trmesh" /\ k >= 3 /\ k < Len(x)
    /\ SwapEdges(tris, k) = {}
    /\ LET p == k + 1
           dup == {l \in 1..k : Node(l) = Node(p)}
       IN  IF dup # {}
           THEN /\ \E l \in dup : ierr' \in DuplicateCodes(l)
                /\ pc' = "trmesh_ret"
                /\ UNCHANGED <<k, tris>>
           ELSE /\ IF Containing(tris, p) # {}
                   THEN \E t \in Containing(tris, p) : tris' = IntAdd(tris, t, p)
                   ELSE tris' = BdyAdd(tris, p)
                /\ k' = p
                /\ UNCHANGED <<ierr, pc>>
    /\ UNCHANGED <<x, y, xnd, ynd, selfSet, simplices, outcome, callerObj>>
    /\ UNCHANGED opVars

Swap ==
    /\ pc = "trmesh" /\ k >= 3
    /\ \E e \in SwapEdges(tris, k) : tris' = SwapArc(tris, e)
    /\ UNCHANGED <<x, y, xnd, ynd, pc, k, ierr, selfSet, simplices, outcome, callerObj>>
    /\ UNCHANGED opVars

TrmeshReturn ==
    /\ pc = "trmesh" /\ k >= 3 /\ k = Len(x)
    /\ SwapEdges(tris, k) = {}
    /\ ierr' = 0
    /\ pc' = "trmesh_ret"
    /\ UNCHANGED buildVars
    /\ UNCHANGED opVars

(***************************************************************************)
(* Triangulation.__init__, lines 76-85: the error check after trmesh and   *)
(* the first six attributes.                                               *)
(***************************************************************************)
\* the test of gradient and smoothing, ierr < 0
NegativeOnly(e) == e < 0

\* ierr != 0
TrmeshFailed(e) == e # 0

InitStore ==
    /\ pc = "trmesh_ret"
    /\ IF TrmeshFailed(ierr)
       THEN /\ outcome' = RaiseIer("trmesh", ierr)
            /\ pc' = "failed"
            /\ UNCHANGED selfSet
       ELSE /\ selfSet' = {"x", "y", "npoints", "lst", "lptr", "lend"}
            /\ pc' = "trlist2"
            /\ UNCHANGED outcome
    /\ UNCHANGED <<x, y, xnd, ynd, k, tris, ierr, simplices, callerObj>>
    /\ UNCHANGED opVars

(***************************************************************************)
(* _tripack.trlist2 / trlist: the triangle list of the structure.  Column  *)
(* t holds the three vertices of triangle t; trlist adds the triangle      *)
(* opposite each vertex (0 on the boundary) and the arc opposite each      *)
(* vertex.  All entries are 1-based; columns beyond nt are unused.         *)
(***************************************************************************)
LexLess(a, b) ==
    \/ a[1] < b[1]
    \/ a[1] = b[1] /\ a[2] < b[2]
    \/ a[1] = b[1] /\ a[2] = b[2] /\ Len(a) > 2 /\ a[3] < b[3]

RECURSIVE SortSet(_)
SortSet(S) ==
    IF S = {} THEN <<>>
    ELSE LET m == CHOOSE a \in S : \A b \in S \ {a} : LexLess(a, b)
         IN  <<m>> \o SortSet(S \ {m})

IndexOf(seq, e) == CHOOSE i \in 1..Len(seq) : seq[i] = e

\* number of columns of ltri
LtriCols(n) == 2 * n - 5

Arcs(T) == {<<e[1], e[2]>> : e \in {f \in DirEdges(T) : f[1] < f[2]}}
              \cup {<<e[2], e[1]>> : e \in {f \in DirEdges(T) : f[2] < f[1]}}

\* the triangle across the arc u -> v of a triangle, 0 on the boundary
NeighbourOf(T, order, u, v) ==
    IF WithEdge(T, v, u) = {} THEN 0
    ELSE IndexOf(order, CHOOSE s \in WithEdge(T, v, u) : TRUE)

ArcOf(arcs, u, v) == IndexOf(arcs, IF u < v THEN <<u, v>> ELSE <<v, u>>)

LtriColumn(T, order, arcs, t, nrow) ==
    LET v == order[t]
    IN  [r \in 1..nrow |->
            CASE r <= 3 -> v[r]
              [] r = 4  -> NeighbourOf(T, order, v[2], v[3])
              [] r = 5  -> NeighbourOf(T, order, v[3], v[1])
              [] r = 6  -> NeighbourOf(T, order, v[1], v[2])
              [] r = 7  -> ArcOf(arcs, v[2], v[3])
              [] r = 8  -> ArcOf(arcs, v[3], v[1])
              [] r = 9  -> ArcOf(arcs, v[1], v[2])]

\* ltri.T: one row per column of ltri
Trlist(T, n, nrow) ==
    LET order == SortSet(T)
        arcs == SortSet(Arcs(T))
    IN  [nt |-> Len(order),
         ltriT |-> [t \in 1..LtriCols(n) |->
                       IF t <= Len(order)
                       THEN LtriColumn(T, order, arcs, t, nrow)
                       ELSE [r \in 1..nrow |-> 0]]]

\* error indicators of trlist and trlist2
TrlistCodes == {0, 1, 2}

(***************************************************************************)
(* Triangulation.__init__, lines 90-96: the triangle list.                 *)
(***************************************************************************)
\* a, the slice forgotten
RowsAll(a, nt) == a

\* a[:nt]
Rows(a, nt) == [t \in 1..nt |-> a[t]]

\* a, the conversion forgotten
NotShifted(a) == a

\* a - 1
MinusOne(a) == [t \in 1..Len(a) |-> [r \in 1..Len(a[t]) |-> a[t][r] - 1]]

\* a[:, lo:hi] with Python's zero-based half-open column range
Columns(a, lo, hi) ==
    [t \in 1..Len(a) |-> [r \in 1..(hi - lo) |-> a[t][lo + r]]]

InitSimplices ==
    /\ pc = "trlist2"
    /\ \E e \in TrlistCodes :
          /\ ierr' = e
          /\ IF e # 0
             THEN /\ outcome' = RaiseIer("trlist2", e)
                  /\ pc' = "failed"
                  /\ UNCHANGED <<selfSet, simplices, callerObj>>
             ELSE LET l == Trlist(tris, Len(x), 3)
                  IN  /\ simplices' = MinusOne(Rows(l.ltriT, l.nt))
                      /\ selfSet' = selfSet \cup {"simplices"}
                      /\ outcome' = Returned
                      /\ callerObj' = "object"
                      /\ pc' = "built"
    /\ UNCHANGED <<x, y, xnd, ynd, k, tris>>
    /\ UNCHANGED opVars

(***************************************************************************)
(* Triangulation.neighbour_simplices, lines 105-108.                       *)
(***************************************************************************)
NeighbourSimplices ==
    /\ pc = "built"
    /\ op' = "neighbour_simplices"
    /\ args' = Args(<<>>, FALSE)
    /\ \E e \in TrlistCodes :
          /\ ierr' = e
          /\ libcodes' = {e}
          /\ IF e # 0
             THEN ret' = RaiseIer("trlist", e)
             ELSE LET l == Trlist(tris, Len(x), 6)
                  IN  ret' = ReturnTable(MinusOne(Columns(Rows(l.ltriT, l.nt), 3, 6)), <<>>)
    /\ ind' = <<>>
    /\ UNCHANGED pc
    /\ UNCHANGED buildVars

(***************************************************************************)
(* Triangulation.neighbour_and_arc_simplices, lines 117-121.               *)
(***************************************************************************)
NeighbourAndArcSimplices ==
    /\ pc = "built"
    /\ op' = "neighbour_and_arc_simplices"
    /\ args' = Args(<<>>, FALSE)
    /\ \E e \in TrlistCodes :
          /\ ierr' = e
          /\ libcodes' = {e}
          /\ IF e # 0
             THEN ret' = RaiseIer("trlist", e)
             ELSE LET l == Trlist(tris, Len(x), 9)
                      ltri == MinusOne(Rows(l.ltriT, l.nt))
                  IN  ret' = ReturnTable(Columns(ltri, 3, 6), Columns(ltri, 6, 9))
    /\ ind' = <<>>
    /\ UNCHANGED pc
    /\ UNCHANGED buildVars

(***************************************************************************)
(* _tripack.nearnd: walk the adjacency graph from node ist, moving to a    *)
(* neighbour that is strictly closer to the query point q, until no        *)
(* neighbour is closer (design document, section 4.3).  NearndEnds is the  *)
(* set of nodes such a walk can stop at.                                   *)
(***************************************************************************)
Closer(T, c, q) == {m \in Neighbours(T, c) : Dist2(Node(m), q) < Dist2(Node(c), q)}

RECURSIVE NearndEnds(_, _, _)
NearndEnds(T, c, q) ==
    IF Closer(T, c, q) = {} THEN {c}
    ELSE UNION {NearndEnds(T, m, q) : m \in Closer(T, c, q)}

(***************************************************************************)
(* Triangulation.nearest_neighbour, lines 137-139.                         *)
(***************************************************************************)
\* ((self.x - xi)**2).argmin(): zero-based position of the first minimum
ArgMinSq(xs, xi) ==
    CHOOSE i \in 0..(Len(xs) - 1) :
        /\ \A j \in 0..(Len(xs) - 1) : Sq(xs[i + 1] - xi) <= Sq(xs[j + 1] - xi)
        /\ \A j \in 0..(i - 1) : Sq(xs[j + 1] - xi) > Sq(xs[i + 1] - xi)

\* idx as the library returns it
OneBased(idx) == idx

\* idx - 1
ToZeroBased(idx) == idx - 1

NearestNeighbour ==
    /\ pc = "built"
    /\ op' = "nearest_neighbour"
    /\ \E q \in Grid :
          /\ args' = Args(q, FALSE)
          /\ LET i == ArgMinSq(x, q[1]) + 1
             IN  \E idx \in NearndEnds(tris, i, q) :
                    ret' = ReturnTable(<<<<ToZeroBased(idx), Dist2(Node(idx), q)>>>>, <<>>)
    /\ libcodes' = {}
    /\ ierr' = 0
    /\ ind' = <<>>
    /\ UNCHANGED pc
    /\ UNCHANGED buildVars

(***************************************************************************)
(* Methods of a built Triangulation that call SRFPACK.  The routines are   *)
(* modelled by the error indicator they return.                            *)
(***************************************************************************)
MaxQ == 2        \* most query points or index entries in one call

Sizes == 0..MaxN

\* gradg: 0 converged, 1 tolerance not met within nit sweeps, < 0 errors
GradgCodes == {0, 1, -1, -2}

\* gradl at node K of n: the number of nodes used, or -1 for an invalid K
GradlCodes(K, n) == IF K \in 1..n THEN 1..n ELSE {-1}

\* intrc0, intrc1 with ist = 1: 0 interpolation, 1 extrapolation
IntrcCodes == {0, 1}

\* smsurf: 0 no errors, 1 constraint not active, < 0 errors
SmsurfCodes == {0, 1, -1, -2}

(***************************************************************************)
(* Triangulation.gradient, lines 222-239.                                  *)
(***************************************************************************)
GradientCall ==
    /\ pc = "built"
    /\ op' = "gradient"
    /\ \E fsize \in Sizes, g \in BOOLEAN :
          /\ args' = Args(<<fsize>>, g)
          /\ IF fsize # npoints
             THEN /\ ret' = RaiseValue("f should be the same size as mesh")
                  /\ pc' = "built"
                  /\ ierr' = 0
             ELSE /\ ret' = NoOutcome
                  /\ ierr' = 1
                  /\ pc' = "gradient_while"
    /\ libcodes' = {}
    /\ ind' = <<>>
    /\ UNCHANGED buildVars

\* while ierr == 1:
GradientWhile ==
    /\ pc = "gradient_while"
    /\ pc' = IF ierr = 1 THEN "gradient_gradg" ELSE "gradient_exit"
    /\ UNCHANGED <<ierr, op, args, ret, ind, libcodes>>
    /\ UNCHANGED buildVars

\* ierr = _srfpack.gradg(...); if not guarantee_convergence: break
GradientGradg ==
    /\ pc = "gradient_gradg"
    /\ \E e \in GradgCodes :
          /\ ierr' = e
          /\ libcodes' = libcodes \cup {e}
    /\ pc' = IF ~args.flag THEN "gradient_exit" ELSE "gradient_while"
    /\ UNCHANGED <<op, args, ret, ind>>
    /\ UNCHANGED buildVars

GradientExit ==
    /\ pc = "gradient_exit"
    /\ ret' = IF ierr < 0 THEN RaiseIer("gradg", ierr)
              ELSE Return("gradient[0], gradient[1]")
    /\ pc' = "built"
    /\ UNCHANGED <<ierr, op, args, ind, libcodes>>
    /\ UNCHANGED buildVars

(***************************************************************************)
(* Triangulation.gradient_local, lines 255-262.                            *)
(***************************************************************************)
GradientLocal ==
    /\ pc = "built"
    /\ op' = "gradient_local"
    /\ \E fsize \in Sizes, index \in 0..npoints :
          /\ args' = Args(<<fsize, index>>, FALSE)
          /\ IF fsize # npoints
             THEN /\ ret' = RaiseValue("f should be the same size as mesh")
                  /\ libcodes' = {}
                  /\ ierr' = 0
             ELSE \E l \in GradlCodes(index + 1, npoints) :
                     /\ ierr' = l
                     /\ libcodes' = {l}
                     /\ ret' = Return("gradX, gradY")
    /\ ind' = <<>>
    /\ UNCHANGED pc
    /\ UNCHANGED buildVars

(***************************************************************************)
(* Triangulation.interpolate_linear, lines 287-307, and interpolate_cubic, *)
(* lines 335-360: one library call per query point.                        *)
(***************************************************************************)
\* the sets of indicators that n calls can return
CodeSets(codes, n) == {c \in SUBSET codes : c # {} /\ Cardinality(c) <= n}

InterpolateLinear ==
    /\ pc = "built"
    /\ op' = "interpolate_linear"
    /\ \E zsize \in Sizes, xsize \in 1..MaxQ, ysize \in 1..MaxQ :
          /\ args' = Args(<<zsize, xsize, ysize>>, FALSE)
          /\ IF zsize # npoints
             THEN /\ ret' = RaiseValue("zdata should be same size as mesh")
                  /\ libcodes' = {}
             ELSE IF xsize > 1 /\ xsize # ysize
             THEN /\ ret' = RaiseValue("xi and yi must have same length")
                  /\ libcodes' = {}
             ELSE \E c \in CodeSets(IntrcCodes, xsize) :
                     /\ libcodes' = c
                     /\ ret' = Return("zi")
    /\ ierr' = 0
    /\ ind' = <<>>
    /\ UNCHANGED pc
    /\ UNCHANGED buildVars

InterpolateCubic ==
    /\ pc = "built"
    /\ op' = "interpolate_cubic"
    /\ \E zsize \in Sizes, xsize \in 1..MaxQ, ysize \in 1..MaxQ, derivatives \in BOOLEAN :
          /\ args' = Args(<<zsize, xsize, ysize>>, derivatives)
          /\ IF zsize # npoints
             THEN /\ ret' = RaiseValue("zdata should be same size as mesh")
                  /\ libcodes' = {}
             ELSE IF xsize > 1 /\ xsize # ysize
             THEN /\ ret' = RaiseValue("xi and yi must have same length")
                  /\ libcodes' = {}
             ELSE \E c \in CodeSets(IntrcCodes, xsize) :
                     /\ libcodes' = c
                     /\ ret' = IF derivatives
                               THEN Return("zi, (dzx, dzy)")
                               ELSE Return("zi")
    /\ ierr' = 0
    /\ ind' = <<>>
    /\ UNCHANGED pc
    /\ UNCHANGED buildVars

(***************************************************************************)
(* Triangulation.smoothing, lines 388-404.                                 *)
(***************************************************************************)
Smoothing ==
    /\ pc = "built"
    /\ op' = "smoothing"
    /\ \E fsize \in Sizes, wsize \in Sizes :
          /\ args' = Args(<<fsize, wsize>>, FALSE)
          /\ IF fsize # npoints \/ fsize # wsize
             THEN /\ ret' = RaiseValue("f and w should be the same size as mesh")
                  /\ libcodes' = {}
                  /\ ierr' = 0
             ELSE \E e \in SmsurfCodes :
                     /\ ierr' = e
                     /\ libcodes' = {e}
                     /\ ret' = IF e < 0 THEN RaiseIer("gradg", e)
                               ELSE IF e = 1
                               THEN Ending("RuntimeWarning", "smsurf", e,
                                           "No errors were encountered but the constraint is not active")
                               ELSE Return("f_smooth, (d2f[0], d2f[1])")
    /\ ind' = <<>>
    /\ UNCHANGED pc
    /\ UNCHANGED buildVars

(***************************************************************************)
(* Triangulation.nearest_neighbours, lines 170-179.  The arguments of the  *)
(* getnp call are the names x, y, lst, lptr, lend, which are neither       *)
(* parameters or locals of the method nor names of the module.             *)
(***************************************************************************)
ModuleNames == {"_tripack", "_srfpack", "np", "__version__", "_ier_codes", "Triangulation"}
LocalNames == {"self", "indices", "distances", "copy", "ind", "dist"}
GetnpArgNames == {"x", "y", "lst", "lptr", "lend", "ind", "dist"}

\* ind += 1 and ind -= 1
Shift(a, by) == [i \in 1..Len(a) |-> a[i] + by]

IndexArrays == UNION {[1..n -> 0..(npoints - 1)] : n \in 1..MaxQ}

NearestNeighbours ==
    /\ pc = "built"
    /\ op' = "nearest_neighbours"
    /\ \E a \in IndexArrays, copy \in BOOLEAN :
          /\ args' = Args(a, copy)
          /\ LET shifted == Shift(a, 1)
             IN  IF GetnpArgNames \subseteq (LocalNames \cup ModuleNames)
                 THEN /\ ind' = IF copy THEN a ELSE Shift(shifted, -1)
                      /\ ret' = Return("indices, distances")
                 ELSE /\ ind' = IF copy THEN a ELSE shifted
                      /\ ret' = Ending("NameError", "getnp", 0, "name 'x' is not defined")
    /\ libcodes' = {}
    /\ ierr' = 0
    /\ UNCHANGED pc
    /\ UNCHANGED buildVars

Next ==
    \/ InitShape
    \/ TrmeshSeed
    \/ AddNod
    \/ Swap
    \/ TrmeshReturn
    \/ InitStore
    \/ InitSimplices
    \/ NeighbourSimplices
    \/ NeighbourAndArcSimplices
    \/ NearestNeighbour

Spec == Init /\ [][Next]_vars

(***************************************************************************)
(* The methods of one built object: the triangulation of the unit square   *)
(* (0,0), (1,0), (0,1), (1,1), as construction leaves it.                  *)
(***************************************************************************)
OpsInit ==
    /\ x = <<0, 1, 0, 1>> /\ y = <<0, 0, 1, 1>>
    /\ xnd = 1 /\ ynd = 1
    /\ pc = "built"
    /\ k = 4
    /\ tris = {<<1, 2, 3>>, <<2, 4, 3>>}
    /\ ierr = 0
    /\ selfSet = {"x", "y", "npoints", "lst", "lptr", "lend", "simplices"}
    /\ simplices = <<<<0, 1, 2>>, <<1, 3, 2>>>>
    /\ outcome = Returned
    /\ callerObj = "object"
    /\ op = "none"
    /\ args = Args(<<>>, FALSE)
    /\ ret = NoOutcome
    /\ ind = <<>>
    /\ libcodes = {}

OpsNext ==
    \/ NeighbourSimplices
    \/ NeighbourAndArcSimplices
    \/ NearestNeighbour
    \/ NearestNeighbours
    \/ GradientCall
    \/ GradientWhile
    \/ GradientGradg
    \/ GradientExit
    \/ GradientLocal
    \/ InterpolateLinear
    \/ InterpolateCubic
    \/ Smoothing

OpsSpec == OpsInit /\ [][OpsNext]_vars

\* the interpreter keeps executing the method in progress
FairOpsSpec == OpsSpec /\ WF_vars(OpsNext)

(***************************************************************************)
(* Properties of construction and of the triangle views.                   *)
(***************************************************************************)
N == Len(x)

WellShaped == xnd = 1 /\ ynd = 1 /\ Len(x) = Len(y)

HasDuplicate == \E i \in 1..N : \E j \in 1..N : i < j /\ Node(i) = Node(j)

SeedOk == N >= 3 /\ OrientN(1, 2, 3) # 0

ValidInput == WellShaped /\ SeedOk /\ ~HasDuplicate

AllAttrs == {"x", "y", "npoints", "lst", "lptr", "lend", "simplices"}

Raised(o) == o.kind \in {"ValueError", "KeyError", "RuntimeWarning", "NameError"}

\* no node among the first n lies strictly inside the circumcircle of a triangle
Delaunay(T, n) == \A t \in T : \A d \in 1..n : ~InCircle(t, d)

\* the insertion of node k and its swaps are complete
InsertionDone ==
    \/ pc = "trmesh" /\ k >= 3 /\ SwapEdges(tris, k) = {}
    \/ pc \in {"trmesh_ret", "trlist2", "built"} /\ k >= 3

\* C1: for every accepted point sequence, after every insertion step and in
\* the built triangulation, no inserted node lies strictly inside the
\* circumcircle of any triangle.
C1_Delaunay == (ValidInput /\ InsertionDone) => Delaunay(tris, k)

\* a fourth node extended the hull and an arc of the seed triangle was swapped
C1_Witness ==
    /\ pc = "built" /\ N = 4 /\ ValidInput
    /\ SeedTri \notin tris
    /\ Cardinality(BoundaryNodes(tris)) = 4
    /\ Delaunay(tris, N)

\* C2: a built triangulation of n nodes lists 2n - 2 - h triangles, h being
\* the number of nodes on the boundary cycle; the unit square gives 2.
C2_TriangleCount ==
    pc = "built" =>
        /\ Len(simplices) = 2 * N - 2 - Cardinality(BoundaryNodes(tris))
        /\ (x = <<0, 1, 0, 1>> /\ y = <<0, 0, 1, 1>>) => Len(simplices) = 2

C2_Witness ==
    /\ pc = "built" /\ x = <<0, 1, 0, 1>> /\ y = <<0, 0, 1, 1>>
    /\ Len(simplices) = 2

\* C3: a construction that fails raises an error and hands no object to the
\* caller; an object the caller holds has every attribute set.
C3_NoPartialObject ==
    /\ (~ValidInput) => (pc # "built" /\ callerObj = "none")
    /\ pc = "failed" => (Raised(outcome) /\ callerObj = "none")
    /\ callerObj = "object" =>
          (outcome.kind = "returned" /\ selfSet = AllAttrs /\ pc = "built")

\* a duplicate node made trmesh fail after the seed triangle was built
C3_Witness ==
    /\ pc = "failed" /\ WellShaped /\ SeedOk /\ HasDuplicate
    /\ Raised(outcome) /\ callerObj = "none"

\* C4: an input with two coinciding nodes (and otherwise acceptable) fails
\* with a ValueError carrying the duplicate-node message.
C4_DuplicateSignal ==
    (pc \in {"failed", "built"} /\ WellShaped /\ SeedOk /\ HasDuplicate) =>
        (outcome.kind = "ValueError" /\ outcome.msg = IerMsg(-3))

\* the arc opposite vertex j of a triangle (vertices 1..3)
OppArc(t, j) ==
    CASE j = 1 -> <<t[2], t[3]>>
      [] j = 2 -> <<t[3], t[1]>>
      [] j = 3 -> <<t[1], t[2]>>

\* nb is a correct zero-based neighbour table for simplices
NeighboursOk(nb) ==
    /\ Len(nb) = Len(simplices)
    /\ \A t \in 1..Len(nb) : \A j \in 1..3 :
          LET e == OppArc(simplices[t], j)
              m == nb[t][j]
          IN  /\ m >= -1
              /\ m = -1 <=> <<e[1] + 1, e[2] + 1>> \in BoundaryEdges(tris)
              /\ m # -1 =>
                    /\ m \in 0..(Len(simplices) - 1)
                    /\ m + 1 # t
                    /\ {e[1], e[2]} \subseteq
                          {simplices[m + 1][1], simplices[m + 1][2], simplices[m + 1][3]}

\* C8: simplices holds zero-based node indices, and the neighbour tables
\* hold -1 exactly on boundary arcs and otherwise the zero-based position
\* of the triangle across the arc.
C8_ZeroBased ==
    /\ pc = "built" =>
          \A t \in 1..Len(simplices) : \A j \in 1..3 : simplices[t][j] \in 0..(N - 1)
    /\ (op = "neighbour_simplices" /\ ret.kind = "returned") => NeighboursOk(ret.value)
    /\ (op = "neighbour_and_arc_simplices" /\ ret.kind = "returned") =>
          NeighboursOk(ret.value)

\* a table with a boundary arc and with an arc shared by triangles 0 and 1
C8_Witness ==
    /\ op = "neighbour_simplices" /\ ret.kind = "returned"
    /\ \E t \in 1..Len(ret.value) : \E i \in 1..3, j \in 1..3 :
          ret.value[t][i] = -1 /\ ret.value[t][j] = 0

\* C9: a query at the coordinates of node i returns the zero-based index of
\* node i and squared distance 0, from whichever node the walk starts.
C9_NearestAtNode ==
    /\ pc = "built" =>
          \A i \in 1..N : \A ist \in 1..N : NearndEnds(tris, ist, Node(i)) = {i}
    /\ (op = "nearest_neighbour" /\ ret.kind = "returned") =>
          \A i \in 1..N : args.nums = Node(i) => ret.value = <<<<i - 1, 0>>>>

\* the query hit node 4 while the x-only heuristic started the walk elsewhere
C9_Witness ==
    /\ op = "nearest_neighbour" /\ ret.kind = "returned" /\ N = 4
    /\ args.nums = Node(4) /\ ArgMinSq(x, args.nums[1]) + 1 # 4
    /\ ret.value = <<<<3, 0>>>>

(***************************************************************************)
(* Properties of the methods of a built object.                            *)
(***************************************************************************)
\* C5: a gradient call with guarantee_convergence=True always terminates.
C5_Terminates ==
    (op = "gradient" /\ pc = "gradient_while" /\ args.flag)
        ~> (pc = "built")

\* C6: when smsurf reports code 1 (constraint not active), smoothing
\* returns the smoothed values and derivative pair.
C6_InactiveIsSuccess ==
    (op = "smoothing" /\ libcodes = {1}) => ret.kind = "returned"

\* an error condition reported by the library routine of method m
LibError(m, e) ==
    IF m \in {"neighbour_simplices", "neighbour_and_arc_simplices"} THEN e # 0 ELSE e < 0

\* C7: a method whose library call reported an error condition ends in an
\* error outcome, never in an ordinary return.
C7_ErrorsReported ==
    (pc = "built" /\ op # "none" /\ \E e \in libcodes : LibError(op, e)) => Raised(ret)

\* C10: after nearest_neighbours with copy=False the caller's indices array
\* holds the zero-based values it held before the call.
C10_IndicesRestored ==
    (op = "nearest_neighbours" /\ ~args.flag) => ind = args.nums

====
